---- MODULE Spec2Model ----
(***************************************************************************)
(* Job Supervisor Core of the backup manager: JobManager (supervisor),     *)
(* RsyncEngine / RcloneEngine (transfer adapters with their monitor        *)
(* threads and the verify-then-delete pipeline), JobStorage (file plus     *)
(* queued whole-list writes) and monitor_jobs_task (event monitor).        *)
(***************************************************************************)
EXTENDS Integers, Sequences, FiniteSets, TLC

\* ---------------------------------------------------------------- bounds
MaxEngines == 2      \* engines ever constructed by successful start_job calls
MaxQueue == 2        \* pending entries of JobStorage._write_queue
max_retries == 1     \* settings 'max_retry_attempts' handed to the engine
MaxFiles == 1        \* files in the source tree of a job
MaxThreads == 2      \* threads calling into the supervisor at the same time
MaxCorruptions == 1  \* times jobs.yaml is damaged from outside the program
MaxSubscribers == 2  \* websocket connections that attach to the broadcaster
failure_threshold == 2  \* CircuitBreaker(failure_threshold=...)
MaxCalls == 10       \* calls made through one circuit breaker

\* ------------------------------------------------------ program constants
CleanupEvery == 10   \* monitor cycles between two reaper passes
WriteRetries == 3    \* retry_with_backoff(max_retries=3) around _perform_write

JobIds == {"j1"}
Threads == 1..MaxThreads
Subscribers == 1..MaxSubscribers
EngIds == 1..MaxEngines
NoEngine == 0
NoJob == [status |-> "absent"]

NETWORK_ERROR_CODES == {10, 12, 30, 35}
SIGTERM == -15
\* exit codes a transfer child can end with on its own
ExitCodes == {0, 1, 10, 23}

valid_start_statuses == {"pending", "paused", "failed"}

VARIABLES
    job_cfg,            \* per job: type and deletion settings (fixed after creation)
    file,               \* contents of jobs.yaml: job id -> stored record
    wq,                 \* JobStorage._write_queue: whole-list snapshots, FIFO
    engines,            \* JobManager.engines: job id -> engine
    last_progress_save, \* JobManager.last_progress_save
    engine_stop_times,  \* JobManager.engine_stop_times
    eng,                \* the engine objects: fields, child process, monitor thread
    nextEng,            \* number of engines started so far
    sourceFiles,        \* files still present in the source tree of each job
    effects,            \* deletion side effects performed so far, per job
    cache,              \* JobManager._job_list_cache
    dirty,              \* JobManager._job_list_dirty
    cacheFresh,         \* cache younger than 1 s
    mon,                \* monitor_jobs_task: position and locals
    previous_states,    \* monitor_jobs_task: previous_states
    cleanup_counter,    \* monitor_jobs_task: cleanup_counter
    finals,             \* job_final_update messages broadcast so far, per job
    rwlock,             \* JobManager._rwlock: counters and the mutex of _write_ready
    thr,                \* threads calling the supervisor: operation and position
    disk,               \* jobs.yaml and jobs.bak as byte sequences, their writer and readers
    writer,             \* JobStorage._shutdown, the writer thread's loop and _shutdown_writer
    ws,                 \* ConnectionManager.active_connections and the broadcast in progress
    cb                  \* a CircuitBreaker: state, failure_count, time since the last failure

vars == <<job_cfg, file, wq, engines, last_progress_save,
          engine_stop_times, eng, nextEng, sourceFiles, effects,
          cache, dirty, cacheFresh, mon, previous_states, cleanup_counter, finals,
          rwlock, thr, disk, writer, ws, cb>>

\* what the operations on jobs leave alone: the configuration of the jobs,
\* the lock protocol of the callers, the bytes of the store files and the
\* life cycle of the writer thread, and the websocket subscribers
cfgVars == <<job_cfg, rwlock, thr, disk, writer, ws, cb>>
monVars == <<mon, previous_states, cleanup_counter, finals>>
cacheVars == <<cache, dirty, cacheFresh>>

\* ------------------------------------------------------------ Job model
\* Job.__init__: progress has no status / deletion block until an engine's
\* snapshot is merged into it.
NewJob ==
    [status |-> "pending", percent |-> 0, version |-> 0]

should_delete_source_unconfirmed(c) ==
    c.delete_source_after /\ ~c.skip_deletion_this_run

should_delete_source(c) ==
    /\ c.delete_source_after
    /\ c.deletion_confirmed
    /\ ~c.skip_deletion_this_run

\* Job.update_progress: progress.update(progress_data)
update_progress_version_only(job, p) ==
    [job EXCEPT !.version = @ + 1]

update_progress(job, p) ==
    [job EXCEPT !.percent = p.percent, !.version = @ + 1]

update_status(job, s) == [job EXCEPT !.status = s, !.version = @ + 1]

\* ------------------------------------------------------------ engines
\* the dict get_progress() last returned, as it was when it was returned
NoSnap ==
    [taken |-> FALSE, status |-> "pending", percent |-> 0, phase |-> "none",
     files_deleted |-> 0, passed |-> "unknown"]

Unused ==
    [job |-> "none", type |-> "rsync", pc |-> "unused", running |-> FALSE,
     process |-> "none", returncode |-> 0, netpat |-> FALSE, retry_count |-> 0,
     delete_source_after |-> FALSE, deletion_mode |-> "verify_then_delete",
     status |-> "pending", percent |-> 0, phase |-> "none", files_deleted |-> 0,
     passed |-> "unknown", todo |-> 0, errors |-> 0,
     childFlag |-> FALSE,
     \* self.max_retries, the wait of the last retry, the restarts made
     max_retries |-> 0, backoff |-> 0, restarts |-> 0,
     snap |-> NoSnap]

Gone == [Unused EXCEPT !.pc = "gone"]

\* RsyncEngine.is_running / RcloneEngine.is_running
is_running(e) == eng[e].running /\ eng[e].process = "alive"

\* get_progress(): the snapshot handed to the supervisor
get_progress(e) ==
    [status |-> eng[e].status, percent |-> eng[e].percent,
     phase |-> eng[e].phase, files_deleted |-> eng[e].files_deleted,
     passed |-> eng[e].passed]

\* An engine object whose thread has ended, whose child is not alive and that
\* the supervisor no longer references is unreachable: its fields are dropped
\* from the state. A child that is still alive stays in the state.
Collect(en, map) ==
    [e \in EngIds |->
        IF en[e].pc = "done" /\ en[e].process # "alive" /\ (\A j \in JobIds : map[j] # e)
        THEN Gone ELSE en[e]]

\* per-file deletion asks the transfer tool itself to remove sources
PerFile(r) == r.delete_source_after /\ r.deletion_mode = "per_file"
VerifyThenDelete(r) == r.delete_source_after /\ r.deletion_mode = "verify_then_delete"


\* ------------------------------------------------------------ storage
\* JobStorage.update_job: re-reads the file, replaces the record of the job
\* and queues the whole list; returns False (no write) if the id is absent.
update_job(q, f, j, job) ==
    IF f[j] = NoJob THEN q ELSE Append(q, [f EXCEPT ![j] = job])

\* JobStorage.delete_job: queues the list without the job
storage_delete_job(q, f, j) ==
    IF f[j] = NoJob THEN q ELSE Append(q, [f EXCEPT ![j] = NoJob])

\* JobStorage.save_job: re-reads the file, replaces or appends the record and
\* queues the whole list
save_job(q, f, j, job) == Append(q, [f EXCEPT ![j] = job])

\* JobStorage.get_job: the record of the file, None when the id is absent
get_job(f, j) == f[j]

\* JobStorage._perform_write, temp file and rename: the oldest queued
\* snapshot replaces the file
Written ==
    /\ wq # <<>>
    /\ file' = Head(wq)
    /\ wq' = Tail(wq)
    /\ UNCHANGED <<engines, last_progress_save, engine_stop_times, eng,
                   nextEng, sourceFiles, effects, cacheVars, monVars>>

\* JobStorage._write_worker: applies the oldest queued snapshot to the file
WriteWorker ==
    /\ Written
    /\ UNCHANGED cfgVars

\* ------------------------------------------- direct callers of the store
\* ids of the jobs held by a store with more than one job
StoreIds == {"j1", "j2"}

\* records a caller hands to save_job / update_job
StoreJobs == {NewJob, [NewJob EXCEPT !.status = "paused", !.version = 1]}

StoreFrame == UNCHANGED <<cfgVars, file, engines, last_progress_save,
                          engine_stop_times, eng, nextEng, sourceFiles, effects,
                          cacheVars, monVars>>

\* storage.save_job(job) returns True
SaveJob(j, job) ==
    /\ Len(wq) < MaxQueue
    /\ wq' = save_job(wq, file, j, job)
    /\ StoreFrame

\* storage.update_job(job) returns True (False, and nothing queued, when the
\* id is not in the file)
UpdateJob(j, job) ==
    /\ Len(wq) < MaxQueue
    /\ file[j] # NoJob
    /\ wq' = update_job(wq, file, j, job)
    /\ StoreFrame

\* storage.delete_job(id) returns True
StoreDeleteJob(j) ==
    /\ Len(wq) < MaxQueue
    /\ file[j] # NoJob
    /\ wq' = storage_delete_job(wq, file, j)
    /\ StoreFrame

\* ------------------------------------------- the store files, byte by byte
\* jobs.yaml (disk.main) and jobs.bak (disk.bak) are "whole" (a complete
\* document: `file` for jobs.yaml, disk.bakdoc for jobs.bak), "corrupt"
\* (damaged from outside) or "partial" (truncated by a copy still going on).
\* disk.events holds the severities of the ErrorEvents the store has logged to
\* the error repository, disk.attempts the failed attempts of the write at
\* the head of the queue.
DiskFrame ==
    UNCHANGED <<job_cfg, cb, rwlock, thr, writer, ws, file, wq, engines, last_progress_save,
                engine_stop_times, eng, nextEng, sourceFiles, effects,
                cacheVars, monVars>>

\* _perform_write, shutil.copy2(storage_path, backup_path) opens jobs.bak
\* for writing: the backup is truncated and filled chunk by chunk
BackupBegin ==
    /\ wq # <<>>
    /\ disk.wpc = "idle"
    /\ disk' = [disk EXCEPT !.bak = "partial", !.wpc = "backup"]
    /\ DiskFrame

\* _perform_write, shutil.copy2(storage_path, backup_path) returns: the backup
\* holds what jobs.yaml held
BackupEnd ==
    /\ disk.wpc = "backup"
    /\ disk' = [disk EXCEPT !.bak = disk.main,
                            !.bakdoc = IF disk.main = "whole" THEN file ELSE @,
                            !.wpc = "write"]
    /\ DiskFrame

\* _perform_write, temp file written under the flock and renamed over jobs.yaml
Rename ==
    /\ disk.wpc = "write"
    /\ Written
    /\ disk' = [disk EXCEPT !.main = "whole", !.wpc = "idle"]
    /\ UNCHANGED <<job_cfg, cb, rwlock, thr, writer, ws>>

\* jobs.yaml is overwritten with bytes that are no YAML document
Corrupt ==
    /\ disk.main = "whole"
    /\ disk.corruptions < MaxCorruptions
    /\ disk' = [disk EXCEPT !.main = "corrupt", !.corruptions = @ + 1]
    /\ DiskFrame

\* _recover_from_backup as entered by thread t: jobs.bak is parsed and, when
\* it parses, shutil.copy2(backup_path, file_path) opens jobs.yaml for writing
RecoverFromBackup(t) ==
    \/ /\ disk.bak \in {"none", "corrupt", "partial"}
       /\ disk' = [disk EXCEPT !.seen[t] = "empty"]
    \/ /\ disk.bak \in {"whole", "partial"}
       /\ disk' = [disk EXCEPT !.seen[t] = disk.bak, !.main = "partial",
                               !.rpc[t] = "restore"]

\* load_jobs by thread t: _load_and_validate_yaml opens jobs.yaml without the
\* flock and parses what it finds; a truncated file parses as a shorter
\* document or raises, a YAMLError leads into _recover_from_backup
LoadJobs(t) ==
    /\ disk.rpc[t] = "idle"
    /\ \/ /\ disk.main \in {"whole", "partial"}
          /\ disk' = [disk EXCEPT !.seen[t] = disk.main]
       \/ /\ disk.main \in {"corrupt", "partial"}
          /\ RecoverFromBackup(t)
    /\ DiskFrame

\* _recover_from_backup, shutil.copy2(backup_path, file_path) returns: the
\* file thread t had opened holds what jobs.bak held, unless a rename has put
\* another file in its place
RestoreEnd(t) ==
    /\ disk.rpc[t] = "restore"
    /\ disk' = [disk EXCEPT !.rpc[t] = "idle",
                            !.main = IF @ = "partial" THEN disk.bak ELSE @]
    /\ file' = IF disk.main = "partial" /\ disk.bak = "whole" THEN disk.bakdoc ELSE file
    /\ UNCHANGED <<job_cfg, cb, rwlock, thr, writer, ws, wq, engines, last_progress_save,
                   engine_stop_times, eng, nextEng, sourceFiles, effects,
                   cacheVars, monVars>>

\* storage.save_job(job) by a caller that finds jobs.yaml intact
DiskSaveJob(j, job) ==
    /\ disk.main = "whole"
    /\ SaveJob(j, job)

\* ------------------------------------------- writes that fail
\* _perform_write returns: the list at the head of the queue is written
PerformWrite ==
    /\ Written
    /\ disk' = [disk EXCEPT !.attempts = 0]
    /\ UNCHANGED <<job_cfg, cb, rwlock, thr, writer, ws>>

\* _perform_write raises: a transient error (IOError, OSError) is retried
\* after a delay up to max_retries times; after that, or at once for another
\* error, the decorator logs a MEDIUM ErrorEvent and re-raises, and
\* _write_worker logs "Write worker error" and marks the list done
PerformWriteRaises ==
    /\ wq # <<>>
    /\ \E transient \in BOOLEAN :
         IF transient /\ disk.attempts < WriteRetries
         THEN /\ disk' = [disk EXCEPT !.attempts = @ + 1]
              /\ UNCHANGED wq
         ELSE /\ disk' = [disk EXCEPT !.attempts = 0, !.events = @ \cup {"MEDIUM"}]
              /\ wq' = Tail(wq)
    /\ UNCHANGED <<job_cfg, cb, rwlock, thr, writer, ws, file, engines, last_progress_save,
                   engine_stop_times, eng, nextEng, sourceFiles, effects,
                   cacheVars, monVars>>

\* ------------------------------------------- the writer thread at shutdown
WriterFrame ==
    UNCHANGED <<job_cfg, cb, rwlock, thr, disk, ws, file, wq, engines, last_progress_save,
                engine_stop_times, eng, nextEng, sourceFiles, effects,
                cacheVars, monVars>>

\* _write_worker, "while not JobStorage._shutdown": the loop test
WriterTest ==
    /\ writer.pc = "test"
    /\ writer' = [writer EXCEPT !.pc = IF writer.shutdown THEN "stopped" ELSE "get"]
    /\ WriterFrame

\* _write_worker, _write_queue.get(timeout=1.0): the shutdown signal ends the
\* loop, a queued list is written and marked done, an empty queue times out
WriterGet ==
    /\ writer.pc = "get"
    /\ IF wq # <<>>
       THEN /\ Written
            /\ writer' = [writer EXCEPT !.pc = "test"]
            /\ UNCHANGED <<job_cfg, cb, rwlock, thr, disk, ws>>
       ELSE /\ writer' = [writer EXCEPT !.pc = IF writer.signal THEN "stopped" ELSE "test"]
            /\ WriterFrame

\* _shutdown_writer up to _write_queue.join(): the flag is set first
ShutdownBegin ==
    /\ writer.caller = "idle"
    /\ writer.pc # "stopped"
    /\ writer' = [writer EXCEPT !.shutdown = TRUE, !.caller = "join"]
    /\ WriterFrame

\* _write_queue.join() returns once every queued list is marked done; then
\* put(None) and _writer_thread.join(timeout=5.0)
ShutdownJoin ==
    /\ writer.caller = "join"
    /\ wq = <<>>
    /\ writer' = [writer EXCEPT !.signal = TRUE, !.caller = "done"]
    /\ WriterFrame

\* storage.save_job(job) before the shutdown has begun
SaveBeforeShutdown(j, job) ==
    /\ ~writer.shutdown
    /\ SaveJob(j, job)

\* ------------------------------------------- ConnectionManager
WsFrame ==
    UNCHANGED <<job_cfg, cb, rwlock, thr, disk, writer, file, wq, engines,
                last_progress_save, engine_stop_times, eng, nextEng, sourceFiles,
                effects, cacheVars, monVars>>

\* the elements of a list
Range(q) == {q[k] : k \in 1..Len(q)}

\* list.remove(c): the list without the first occurrence of c
Remove(q, c) ==
    LET k == CHOOSE n \in 1..Len(q) : q[n] = c /\ \A m \in 1..(n - 1) : q[m] # c
    IN IF c \in Range(q) THEN SubSeq(q, 1, k - 1) \o SubSeq(q, k + 1, Len(q)) ELSE q

\* the list after disconnect() of every member of dead, in order
RECURSIVE RemoveAll(_, _)
RemoveAll(q, dead) ==
    IF dead = <<>> THEN q ELSE RemoveAll(Remove(q, Head(dead)), Tail(dead))

\* connect(websocket): accept, then append
Connect(c) ==
    /\ c \notin Range(ws.conns)
    /\ ws' = [ws EXCEPT !.conns = Append(@, c)]
    /\ WsFrame

\* disconnect(websocket) by the endpoint of a client that went away; ws.stayed
\* keeps the subscribers attached since the broadcast began
Disconnect(c) ==
    /\ c \in Range(ws.conns)
    /\ ws' = [ws EXCEPT !.conns = Remove(@, c), !.stayed = @ \ {c}]
    /\ WsFrame

\* broadcast(message) is called: the for loop starts on active_connections
BroadcastStart ==
    /\ ws.pc \in {"idle", "done"}
    /\ ws' = [ws EXCEPT !.pc = "loop", !.i = 0, !.dead = <<>>, !.delivered = {},
                        !.raised = {}, !.stayed = Range(ws.conns)]
    /\ WsFrame

\* one iteration: the list iterator yields active_connections[i], the task
\* is suspended in "await connection.send_json(message)", which returns or raises
BroadcastSend ==
    /\ ws.pc = "loop" /\ ws.i < Len(ws.conns)
    /\ LET c == ws.conns[ws.i + 1] IN
       \/ ws' = [ws EXCEPT !.i = @ + 1, !.delivered = @ \cup {c}]
       \/ ws' = [ws EXCEPT !.i = @ + 1, !.dead = Append(@, c), !.raised = @ \cup {c}]
    /\ WsFrame

\* the iterator is exhausted; dead connections are disconnected
BroadcastEnd ==
    /\ ws.pc = "loop" /\ ws.i >= Len(ws.conns)
    /\ ws' = [ws EXCEPT !.pc = "done", !.conns = RemoveAll(@, ws.dead)]
    /\ WsFrame

\* ------------------------------------------------- CircuitBreaker
CircuitFrame ==
    UNCHANGED <<job_cfg, rwlock, thr, disk, writer, ws, file, wq, engines,
                last_progress_save, engine_stop_times, eng, nextEng, sourceFiles,
                effects, cacheVars, monVars>>

\* CircuitBreaker.call(func): an open circuit rejects the call unless the
\* recovery timeout has passed; otherwise func runs and returns or raises.
\* streak counts the calls of func that raised since func last returned.
CircuitCall(raises) ==
    /\ cb.calls < MaxCalls
    /\ IF cb.state = "open" /\ ~cb.elapsed
       THEN cb' = [cb EXCEPT !.calls = @ + 1]
       ELSE LET state == IF cb.state = "open" THEN "half_open" ELSE cb.state IN
            IF ~raises
            THEN cb' = [cb EXCEPT
                    !.calls = @ + 1, !.streak = 0,
                    !.state = IF state = "half_open" THEN "closed" ELSE state,
                    !.failure_count = IF state = "half_open" THEN 0 ELSE @]
            ELSE cb' = [cb EXCEPT
                    !.calls = @ + 1, !.streak = @ + 1,
                    !.failure_count = @ + 1, !.elapsed = FALSE,
                    !.state = IF cb.failure_count + 1 >= failure_threshold
                              THEN "open" ELSE state]
    /\ CircuitFrame

\* recovery_timeout seconds pass after the last failure
CircuitElapse ==
    /\ cb.state = "open" /\ ~cb.elapsed
    /\ cb' = [cb EXCEPT !.elapsed = TRUE]
    /\ CircuitFrame

\* CircuitBreaker.reset()
CircuitReset ==
    /\ cb.calls < MaxCalls
    /\ cb' = [cb EXCEPT !.state = "closed", !.failure_count = 0, !.elapsed = FALSE,
                        !.streak = 0, !.calls = @ + 1]
    /\ CircuitFrame

Configs ==
    [type : {"rsync", "rclone"},
     delete_source_after : BOOLEAN,
     deletion_confirmed : BOOLEAN,
     skip_deletion_this_run : BOOLEAN,
     deletion_mode : {"verify_then_delete", "per_file"}]

\* the supervisor, the engines and the write queue after construction
InitRest ==
    /\ wq = <<>>
    /\ rwlock = [readers |-> 0, writers |-> 0, pending_writers |-> 0, write_ready |-> 0]
    /\ thr = [t \in Threads |-> [op |-> "none", pc |-> "idle"]]
    /\ disk = [main |-> "whole", bak |-> "none", bakdoc |-> <<>>, wpc |-> "idle",
               rpc |-> [t \in Threads |-> "idle"],
               seen |-> [t \in Threads |-> "none"], corruptions |-> 0,
               attempts |-> 0, events |-> {}]
    /\ writer = [shutdown |-> FALSE, pc |-> "test", signal |-> FALSE, caller |-> "idle"]
    /\ ws = [conns |-> <<>>, pc |-> "idle", i |-> 0, dead |-> <<>>,
             delivered |-> {}, raised |-> {}, stayed |-> {}]
    /\ cb = [state |-> "closed", failure_count |-> 0, elapsed |-> FALSE,
             streak |-> 0, calls |-> 0]
    /\ engines = [j \in JobIds |-> NoEngine]
    /\ last_progress_save = [j \in JobIds |-> [present |-> FALSE, percent |-> 0, fresh |-> FALSE]]
    /\ engine_stop_times = [j \in JobIds |-> "none"]
    /\ eng = [e \in EngIds |-> Unused]
    /\ nextEng = 0
    /\ sourceFiles = [j \in JobIds |-> MaxFiles]
    /\ effects = [j \in JobIds |-> {}]
    /\ cache = [present |-> FALSE, jobs |-> [j \in JobIds |-> "absent"]]
    /\ dirty = TRUE
    /\ cacheFresh = FALSE
    /\ previous_states = [j \in JobIds |-> "none"]
    /\ cleanup_counter = 0
    /\ finals = [j \in JobIds |-> <<>>]

Init ==
    /\ InitRest
    /\ job_cfg \in [JobIds -> Configs]
    /\ file = [j \in JobIds |-> NewJob]
    /\ mon = [pc |-> "list1", running_jobs |-> {}]

\* ------------------------------------------------------------ start_job
\* an operation that returns failure before it changed anything
Reject == UNCHANGED vars

\* the engine object start_job constructs, after engine.start() succeeded
\* m: the setting max_retry_attempts handed to the constructor
StartedEngineWith(j, m) ==
    LET c == job_cfg[j]
        dsa == should_delete_source(c)
    IN [Unused EXCEPT
          !.job = j, !.max_retries = m, !.type = c.type, !.pc = "reading", !.running = TRUE,
          !.process = "alive", !.status = "running",
          !.delete_source_after = dsa, !.deletion_mode = c.deletion_mode,
          !.phase = IF dsa THEN "transfer" ELSE "none",
          !.childFlag = dsa /\ c.deletion_mode = "per_file"]

StartedEngine(j) == StartedEngineWith(j, max_retries)

\* start_job lines 114-117: an engine of this job is live
AlreadyRunningNoCheck(j) == FALSE

AlreadyRunning(j) == engines[j] # NoEngine /\ is_running(engines[j])

\* start_job lines 124-132: only pending, paused and failed jobs start
StartableAnyStatus(job) == TRUE

Startable(job) == job.status \in valid_start_statuses

StartJobWith(j, m) ==
    IF AlreadyRunning(j) THEN Reject
    ELSE IF file[j] = NoJob THEN Reject
    ELSE IF ~Startable(file[j]) THEN Reject
    ELSE
      \* path validation, pre-start validation or deletion safety check fails
      \/ Reject
      \* engine.start() fails: the deletion audit log was already opened
      \/ /\ should_delete_source(job_cfg[j])
         /\ effects' = [effects EXCEPT ![j] = @ \cup {"audit"}]
         /\ UNCHANGED <<cfgVars, file, wq, engines, last_progress_save,
                        engine_stop_times, eng, nextEng, sourceFiles,
                        cacheVars, monVars>>
      \/ /\ nextEng < MaxEngines
         /\ Len(wq) < MaxQueue
         /\ LET e == nextEng + 1
                new == StartedEngineWith(j, m)
            IN /\ engines' = [engines EXCEPT ![j] = e]
               /\ eng' = Collect([eng EXCEPT ![e] = new], engines')
               /\ nextEng' = e
               /\ last_progress_save' =
                     [last_progress_save EXCEPT
                        ![j] = [present |-> TRUE, percent |-> 0, fresh |-> TRUE]]
               /\ effects' = [effects EXCEPT ![j] =
                     @ \cup (IF new.delete_source_after THEN {"audit"} ELSE {})
                       \cup (IF new.childFlag THEN {"flag"} ELSE {})]
               /\ wq' = update_job(wq, file, j, update_status(file[j], "running"))
               /\ dirty' = TRUE
               /\ UNCHANGED <<cfgVars, file, engine_stop_times, sourceFiles,
                              cache, cacheFresh, monVars>>

\* start_job under the bounded retry setting
StartJob(j) == StartJobWith(j, max_retries)

\* ------------------------------------------------------------ engine thread
SetEng(e, r) == eng' = Collect([eng EXCEPT ![e] = r], engines)

EngFrame == UNCHANGED <<cfgVars, file, wq, engines, last_progress_save,
                        engine_stop_times, nextEng, cacheVars, monVars>>

\* _parse_progress merges a parsed percent into the snapshot
ParseProgress(e) ==
    /\ eng[e].pc = "reading" /\ eng[e].process = "alive"
    /\ eng[e].percent = 0
    /\ SetEng(e, [eng[e] EXCEPT !.percent = 50])
    /\ EngFrame /\ UNCHANGED <<sourceFiles, effects>>

\* the transfer child ends by itself with some exit code; netpat: the tail of
\* its output holds one of NETWORK_ERROR_PATTERNS
ChildExit(e) ==
    /\ eng[e].process = "alive"
    /\ \E rc \in ExitCodes, np \in BOOLEAN :
         /\ (rc = 0 => ~np)
         /\ SetEng(e, [eng[e] EXCEPT !.process = "exited", !.returncode = rc,
                                     !.netpat = np, !.childFlag = FALSE])
    /\ EngFrame /\ UNCHANGED <<sourceFiles, effects>>

\* a child started with --remove-source-files (rsync) or as 'move' (rclone)
\* removes a source file it has transferred
ChildUnlink(e) ==
    LET j == eng[e].job IN
    /\ eng[e].process = "alive" /\ eng[e].childFlag
    /\ sourceFiles[j] > 0
    /\ sourceFiles' = [sourceFiles EXCEPT ![j] = @ - 1]
    /\ effects' = [effects EXCEPT ![j] = @ \cup {"unlink"}]
    /\ UNCHANGED eng
    /\ EngFrame

\* RsyncEngine._is_network_error plus the NETWORK_ERROR_CODES test (rsync);
\* pattern scan of the stderr tail (rclone)
IsTransient(r) ==
    IF r.type = "rsync"
    THEN r.returncode \in NETWORK_ERROR_CODES \/ (r.returncode = 23 /\ r.netpat)
    ELSE r.netpat

\* settings 'verification_mode' as handed to the engine by start_job; the
\* engine reads it first after a successful transfer ('checksum' only adds a
\* flag to the command line)
VerificationModes == {"fast", "verify_after"}

\* "backoff = min(2 ** self.retry_count, 60)", read before the increment
BackoffUncapped(retry_count) == 2 ^ retry_count

Backoff(retry_count) == IF 2 ^ retry_count < 60 THEN 2 ^ retry_count ELSE 60

\* _monitor_output after EOF: process.wait(), then the branch on returncode
ThreadExit(e) ==
    LET r0 == eng[e] j == eng[e].job
        \* the exit status is consumed here and read by nobody afterwards
        r == [r0 EXCEPT !.returncode = 0, !.netpat = FALSE]
    IN
    /\ r0.pc = "reading" /\ r0.process = "exited"
    /\ \E verification_mode \in VerificationModes :
       IF r0.returncode = 0 THEN
          IF VerifyThenDelete(r) THEN
             /\ SetEng(e, [r EXCEPT !.phase = "verifying", !.pc = "verify"])
             /\ UNCHANGED effects
          ELSE IF PerFile(r) THEN
             /\ SetEng(e, [r EXCEPT !.phase = "completed",
                     !.pc = IF r.type = "rclone" /\ verification_mode = "verify_after"
                            THEN "verify_after" ELSE "finish"])
             /\ effects' = [effects EXCEPT ![j] =
                     @ \cup {"audit"} \cup (IF r.type = "rsync" THEN {"prune"} ELSE {})]
          ELSE
             /\ SetEng(e, [r EXCEPT
                     !.pc = IF r.type = "rclone" /\ verification_mode = "verify_after"
                            THEN "verify_after" ELSE "finish"])
             /\ UNCHANGED effects
       ELSE IF IsTransient(r0) THEN
          /\ IF r.retry_count < r.max_retries
             THEN SetEng(e, [r EXCEPT !.backoff = Backoff(r.retry_count),
                                      !.retry_count = @ + 1, !.status = "retrying",
                                      !.pc = "backoff"])
             ELSE SetEng(e, [r EXCEPT !.status = "failed", !.running = FALSE,
                                      !.pc = "done"])
          /\ UNCHANGED effects
       ELSE
          /\ SetEng(e, [r EXCEPT !.status = "failed", !.running = FALSE, !.pc = "done"])
          /\ UNCHANGED effects
    /\ EngFrame /\ UNCHANGED sourceFiles

\* time.sleep(backoff) returns; "if self.running:" decides on the restart
BackoffWake(e) ==
    /\ eng[e].pc = "backoff"
    /\ SetEng(e, [eng[e] EXCEPT !.pc = IF eng[e].running THEN "restart" ELSE "done"])
    /\ EngFrame /\ UNCHANGED <<sourceFiles, effects>>

\* _restart_process, then "continue" to the loop test "while self.running"
\* (rsync rebuilds the command without --remove-source-files, rclone keeps move)
RestartProcess(e) ==
    LET r == eng[e] IN
    /\ r.pc = "restart"
    /\ \/ /\ SetEng(e, [r EXCEPT !.process = "alive", !.returncode = 0,
                          !.netpat = FALSE, !.restarts = @ + 1,
                          !.childFlag = (r.type = "rclone" /\ PerFile(r)),
                          !.pc = IF r.running THEN "reading" ELSE "done"])
          /\ effects' = [effects EXCEPT ![r.job] =
                  @ \cup (IF r.type = "rclone" /\ PerFile(r) THEN {"flag"} ELSE {})]
       \/ /\ SetEng(e, [r EXCEPT !.status = "failed", !.running = FALSE, !.pc = "done"])
          /\ UNCHANGED effects
    /\ EngFrame /\ UNCHANGED sourceFiles

\* _verify_backup: pass, or fail by mismatch, timeout or exception
Verify(e) ==
    LET r == eng[e] j == eng[e].job IN
    /\ r.pc = "verify"
    /\ \E res \in {"pass", "fail"} :
         IF res = "pass"
         THEN SetEng(e, [r EXCEPT !.phase = "deleting",
                                  !.pc = "delete", !.todo = sourceFiles[j],
                                  !.errors = 0])
         ELSE SetEng(e, [r EXCEPT !.phase = "failed",
                                  !.pc = "finish"])
    /\ effects' = [effects EXCEPT ![j] = @ \cup {"audit"}]
    /\ EngFrame /\ UNCHANGED sourceFiles

\* _delete_verified_files, local source (rsync): one file of the walk is
\* unlinked and logged, or its removal raises (counted in errors)
DeleteFile(e) ==
    LET r == eng[e] j == eng[e].job IN
    /\ r.pc = "delete" /\ r.type = "rsync" /\ r.todo > 0
    /\ \/ /\ sourceFiles[j] > 0
          /\ sourceFiles' = [sourceFiles EXCEPT ![j] = @ - 1]
          /\ effects' = [effects EXCEPT ![j] = @ \cup {"unlink", "audit"}]
          /\ SetEng(e, [r EXCEPT !.todo = @ - 1, !.files_deleted = @ + 1])
       \/ /\ SetEng(e, [r EXCEPT !.todo = @ - 1, !.errors = @ + 1])
          /\ UNCHANGED <<sourceFiles, effects>>
    /\ EngFrame

\* end of _delete_verified_files (rsync); on success _cleanup_empty_dirs and
\* phase 'completed', otherwise the phase is left as it is
DeleteDone(e) ==
    LET r == eng[e] j == eng[e].job IN
    /\ r.pc = "delete" /\ r.type = "rsync" /\ r.todo = 0
    /\ IF r.errors = 0
       THEN /\ SetEng(e, [r EXCEPT !.phase = "completed", !.pc = "finish"])
            /\ effects' = [effects EXCEPT ![j] = @ \cup {"prune", "audit"}]
       ELSE /\ SetEng(e, [r EXCEPT !.pc = "finish", !.errors = 0])
            /\ UNCHANGED effects
    /\ EngFrame /\ UNCHANGED sourceFiles

\* _delete_verified_files, remote source (rclone): 'rclone delete' removes
\* everything or fails; files_deleted is not counted for remote sources
DeleteRemote(e) ==
    LET r == eng[e] j == eng[e].job IN
    /\ r.pc = "delete" /\ r.type = "rclone"
    /\ \/ /\ sourceFiles' = [sourceFiles EXCEPT ![j] = 0]
          /\ effects' = [effects EXCEPT ![j] = @ \cup {"unlink", "prune", "audit"}]
          /\ SetEng(e, [r EXCEPT !.phase = "completed", !.pc = "finish"])
       \/ /\ SetEng(e, [r EXCEPT !.pc = "finish"])
          /\ UNCHANGED <<sourceFiles, effects>>
    /\ EngFrame

\* rclone only: verification_mode 'verify_after' outside verify_then_delete
VerifyAfter(e) ==
    LET r == eng[e] IN
    /\ r.pc = "verify_after"
    /\ \E res \in {"true", "false"} :
         SetEng(e, [r EXCEPT !.passed = res, !.pc = "finish"])
    /\ EngFrame /\ UNCHANGED <<sourceFiles, effects>>

\* "Update completion status atomically", then break
Finish(e) ==
    LET r == eng[e] IN
    /\ r.pc = "finish"
    /\ SetEng(e, [r EXCEPT !.status = "completed", !.percent = 100,
                           !.running = FALSE, !.pc = "done"])
    /\ EngFrame /\ UNCHANGED <<sourceFiles, effects>>

EngineStep(e) ==
    \/ ParseProgress(e) \/ ChildExit(e) \/ ChildUnlink(e) \/ ThreadExit(e)
    \/ BackoffWake(e)
    \/ RestartProcess(e) \/ Verify(e) \/ DeleteFile(e) \/ DeleteDone(e)
    \/ DeleteRemote(e) \/ VerifyAfter(e) \/ Finish(e)

\* ------------------------------------------------------------ stop_job
Absent == [present |-> FALSE, percent |-> 0, fresh |-> FALSE]

\* engine.stop(): terminate, drain, wait; on a wait timeout kill and leave
\* the status as it is
Stopped(r, timeout) ==
    [r EXCEPT !.running = FALSE,
              !.process = "exited",
              !.returncode = IF r.process = "alive" THEN SIGTERM ELSE @,
              !.childFlag = FALSE,
              !.status = IF timeout THEN @ ELSE "paused"]

SnapshotOf(r) ==
    [status |-> r.status, percent |-> r.percent, phase |-> r.phase,
     files_deleted |-> r.files_deleted, passed |-> r.passed]

\* get_progress() called on engine e: "return self.progress.copy()" under the
\* progress lock; the caller keeps the returned dict
GetProgress(e) ==
    /\ eng[e].pc \notin {"unused", "gone"}
    /\ ~eng[e].snap.taken
    /\ SetEng(e, [eng[e] EXCEPT !.snap =
            [taken |-> TRUE, status |-> eng[e].status, percent |-> eng[e].percent,
             phase |-> eng[e].phase, files_deleted |-> eng[e].files_deleted,
             passed |-> eng[e].passed]])
    /\ EngFrame /\ UNCHANGED <<sourceFiles, effects>>

\* what the caller reads in the dict it keeps: dict.copy() is shallow, so
\* status and percent are the caller's own values while 'deletion' and
\* 'verification' are the engine's own nested dicts
SnapshotNow(e) ==
    [eng[e].snap EXCEPT !.phase = eng[e].phase,
                        !.files_deleted = eng[e].files_deleted,
                        !.passed = eng[e].passed]

\* engine.stop() alone, as stop_job calls it while the engines map still holds
\* the engine; a call on an engine whose running flag is down returns False
EngineStop(e) ==
    /\ eng[e].running
    /\ \E timeout \in BOOLEAN :
         /\ (timeout => eng[e].process = "alive")
         /\ eng' = Collect([eng EXCEPT ![e] = Stopped(eng[e], timeout)], engines)
    /\ EngFrame /\ UNCHANGED <<sourceFiles, effects>>

StopJob(j) ==
    IF engines[j] = NoEngine THEN Reject
    ELSE IF ~eng[engines[j]].running THEN Reject
    ELSE
      /\ Len(wq) < MaxQueue
      /\ \E timeout \in BOOLEAN :
           LET e == engines[j]
               stopped == Stopped(eng[e], timeout)
           IN /\ (timeout => eng[e].process = "alive")
              /\ engines' = [engines EXCEPT ![j] = NoEngine]
              /\ eng' = Collect([eng EXCEPT ![e] = stopped], engines')
              /\ IF file[j] # NoJob
                 THEN /\ wq' = update_job(wq, file, j,
                             update_status(update_progress(file[j], SnapshotOf(stopped)),
                                           "paused"))
                      /\ dirty' = TRUE
                 ELSE UNCHANGED <<wq, dirty>>
              /\ last_progress_save' = [last_progress_save EXCEPT ![j] = Absent]
              /\ UNCHANGED <<cfgVars, file, engine_stop_times, nextEng, sourceFiles,
                             effects, cache, cacheFresh, monVars>>

\* start_job lines 209-237: engine.start() succeeded and a statement of the
\* inner try block raises before the status is stored; the handler stops the
\* registered engine, deletes both entries and start_job returns failure
StartJobRaises(j) ==
    /\ ~AlreadyRunning(j) /\ file[j] # NoJob /\ Startable(file[j])
    /\ nextEng < MaxEngines
    /\ \E timeout \in BOOLEAN :
         LET e == nextEng + 1
             new == StartedEngine(j)
         IN /\ engines' = [engines EXCEPT ![j] = NoEngine]
            /\ eng' = Collect([eng EXCEPT ![e] = Stopped(new, timeout)], engines')
            /\ nextEng' = e
            /\ last_progress_save' = [last_progress_save EXCEPT ![j] = Absent]
            /\ effects' = [effects EXCEPT ![j] =
                  @ \cup (IF new.delete_source_after THEN {"audit"} ELSE {})
                    \cup (IF new.childFlag THEN {"flag"} ELSE {})]
            /\ UNCHANGED <<cfgVars, file, wq, engine_stop_times, sourceFiles,
                           cacheVars, monVars>>

\* ------------------------------------------------------------ delete_job
DeleteJob(j) ==
    IF engines[j] # NoEngine /\ is_running(engines[j]) THEN Reject
    ELSE IF file[j] = NoJob THEN Reject
    ELSE
      /\ Len(wq) < MaxQueue
      /\ wq' = storage_delete_job(wq, file, j)
      /\ engines' = [engines EXCEPT ![j] = NoEngine]
      /\ eng' = Collect(eng, engines')
      /\ dirty' = TRUE
      /\ UNCHANGED <<cfgVars, file, last_progress_save, engine_stop_times, nextEng,
                     sourceFiles, effects, cache, cacheFresh, monVars>>

\* ------------------------------------------------- update_job_from_engine
\* _should_persist_progress: first save, 2 s elapsed, or percent changed by >= 1
AbsDiff(a, b) == IF a >= b THEN a - b ELSE b - a

should_persist_progress(j, p) ==
    \/ ~last_progress_save[j].present
    \/ ~last_progress_save[j].fresh
    \/ AbsDiff(p.percent, last_progress_save[j].percent) >= 1

\* status written by the finalizing branch (lines 412-416)
FinalStatus(job, p) ==
    IF p.status = "completed" THEN update_status(job, "completed")
    ELSE IF p.status = "failed" THEN update_status(job, "failed")
    ELSE job

\* the effect of update_job_from_engine(j) on the supervisor and the store
UpdateJobFromEngine(j) ==
    IF file[j] = NoJob \/ engines[j] = NoEngine
    THEN UNCHANGED <<wq, engines, last_progress_save, engine_stop_times, eng, dirty>>
    ELSE
      LET e == engines[j]
          p == get_progress(e)
          job == update_progress(file[j], p)
      IN IF is_running(e)
         THEN /\ IF should_persist_progress(j, p)
                 THEN /\ Len(wq) < MaxQueue
                      /\ wq' = update_job(wq, file, j, job)
                      /\ last_progress_save' = [last_progress_save EXCEPT
                            ![j] = [present |-> TRUE, percent |-> p.percent,
                                    fresh |-> TRUE]]
                 ELSE UNCHANGED <<wq, last_progress_save>>
              /\ UNCHANGED <<engines, engine_stop_times, eng, dirty>>
         ELSE /\ Len(wq) + 2 <= MaxQueue
              \* both saves queue a list that holds the same Job object: the
              \* first entry is serialized by the writer thread, before or
              \* after the status update of lines 412-416
              /\ \E first \in {job, FinalStatus(job, p)} :
                    wq' = update_job(update_job(wq, file, j, first), file, j,
                                     FinalStatus(job, p))
              /\ dirty' = TRUE
              /\ engines' = [engines EXCEPT ![j] = NoEngine]
              /\ eng' = Collect(eng, engines')
              /\ last_progress_save' = [last_progress_save EXCEPT ![j] = Absent]
              /\ engine_stop_times' = [engine_stop_times EXCEPT ![j] = "none"]

\* ------------------------------------------------ cleanup_stopped_engines
\* a stopped engine gets a stop time on the first pass and is dropped, with
\* its tracker entries, by a pass more than 300 s later
ReapedWhenOld(j) ==
    /\ engines[j] # NoEngine
    /\ engine_stop_times[j] = "old"

Reaped(j) ==
    /\ engines[j] # NoEngine /\ ~is_running(engines[j])
    /\ engine_stop_times[j] = "old"

CleanupStoppedEngines ==
    /\ engines' = [j \in JobIds |-> IF Reaped(j) THEN NoEngine ELSE engines[j]]
    /\ engine_stop_times' =
          [j \in JobIds |->
             IF engines[j] # NoEngine /\ ~is_running(engines[j])
             THEN (IF engine_stop_times[j] = "none" THEN "recent"
                   ELSE IF engine_stop_times[j] = "old" THEN "none"
                   ELSE engine_stop_times[j])
             ELSE engine_stop_times[j]]
    /\ last_progress_save' =
          [j \in JobIds |-> IF Reaped(j) THEN Absent ELSE last_progress_save[j]]
    /\ eng' = Collect(eng, engines')

\* ------------------------------------------------------------ list_jobs
CacheHit == ~dirty /\ cache.present /\ cacheFresh

\* the statuses list_jobs returns: the cached list, or a rebuild from the file
ListJobs == IF CacheHit THEN cache.jobs ELSE [j \in DOMAIN file |-> file[j].status]

\* list_jobs lines 566-571: on a miss the rebuilt list replaces the cache
RefreshCache ==
    IF CacheHit THEN UNCHANGED <<cache, dirty>>
    ELSE /\ cache' = [present |-> TRUE, jobs |-> [j \in DOMAIN file |-> file[j].status]]
         /\ dirty' = FALSE

\* ------------------------------------------------------ monitor_jobs_task
SupFrame == UNCHANGED <<cfgVars, file, nextEng, sourceFiles, effects>>

\* lines 36-38: first list_jobs of a cycle; without running jobs the cycle
\* only counts towards the reaper and sleeps 5 s
MonList1 ==
    /\ mon.pc = "list1"
    /\ RefreshCache
    /\ LET running_jobs == {j \in JobIds : ListJobs[j] = "running"} IN
       IF running_jobs # {}
       THEN /\ mon' = [pc |-> "update", running_jobs |-> running_jobs]
            /\ cacheFresh' = (CacheHit => cacheFresh)
            /\ UNCHANGED cleanup_counter
       ELSE /\ cleanup_counter' = cleanup_counter + 1
            /\ mon' = [pc |-> IF cleanup_counter' >= CleanupEvery
                              THEN "cleanup_idle" ELSE "list1",
                       running_jobs |-> {}]
            \* the cycle ends in sleep(5): the cache is older than its 1 s
            /\ cacheFresh' = FALSE
    /\ SupFrame
    /\ UNCHANGED <<wq, engines, last_progress_save, engine_stop_times, eng,
                   previous_states, finals>>

\* lines 43-48: update_job_from_engine for one running job of the list
MonUpdate(j) ==
    /\ mon.pc = "update" /\ j \in mon.running_jobs
    /\ UpdateJobFromEngine(j)
    /\ LET rest == mon.running_jobs \ {j} IN
       IF rest # {}
       THEN /\ mon' = [mon EXCEPT !.running_jobs = rest]
            /\ UNCHANGED cleanup_counter
       ELSE /\ cleanup_counter' = cleanup_counter + 1
            /\ mon' = [pc |-> IF cleanup_counter' >= CleanupEvery
                              THEN "cleanup" ELSE "list2",
                       running_jobs |-> {}]
    /\ SupFrame
    /\ UNCHANGED <<cache, cacheFresh, previous_states, finals>>

\* lines 49-53 and 107-111: the reaper pass of every tenth cycle
MonCleanup ==
    /\ mon.pc \in {"cleanup", "cleanup_idle"}
    /\ CleanupStoppedEngines
    /\ cleanup_counter' = 0
    /\ mon' = [mon EXCEPT !.pc = IF mon.pc = "cleanup" THEN "list2" ELSE "list1"]
    /\ SupFrame
    /\ UNCHANGED <<wq, cacheVars, previous_states, finals>>

FinalStatuses == {"completed", "failed", "paused"}

\* lines 82-91: a final update is due for a job that left 'running'
FinalDueAnyPrevious(previous, current) ==
    current \in FinalStatuses

FinalDue(previous, current) ==
    previous = "running" /\ current \in FinalStatuses

\* lines 56-102: second list_jobs, the batch, previous_states, broadcast, sleep 1 s
MonList2 ==
    /\ mon.pc = "list2"
    /\ LET jobs == ListJobs IN
       /\ finals' = [j \in JobIds |->
             IF jobs[j] # "absent" /\ jobs[j] # "running"
                /\ FinalDue(previous_states[j], jobs[j])
             THEN Append(finals[j], jobs[j]) ELSE finals[j]]
       /\ previous_states' = [j \in JobIds |->
             IF jobs[j] # "absent" THEN jobs[j] ELSE previous_states[j]]
    /\ RefreshCache
    \* the cycle ends in sleep(1): the cache is older than its 1 s
    /\ cacheFresh' = FALSE
    /\ mon' = [pc |-> "list1", running_jobs |-> {}]
    /\ SupFrame
    /\ UNCHANGED <<wq, engines, last_progress_save, engine_stop_times, eng,
                   cleanup_counter>>

MonitorStep == MonList1 \/ (\E j \in JobIds : MonUpdate(j)) \/ MonCleanup \/ MonList2

\* ------------------------------------------------- callers and the lock
\* operations of the supervisor that take the read side / the write side
ReadOps == {"list_jobs", "get_job_status"}
WriteOps == {"create_job", "start_job", "stop_job", "delete_job",
             "update_job_from_engine", "cleanup_stopped_engines"}

LockFrame == UNCHANGED <<job_cfg, cb, disk, writer, ws, file, wq, engines, last_progress_save,
                         engine_stop_times, eng, nextEng, sourceFiles, effects,
                         monVars>>

Goto(t, pc) == thr' = [thr EXCEPT ![t].pc = pc]

\* a thread enters an operation: "with self._rwlock.read_lock()" or
\* "with self._rwlock.write_lock()", both without timeout
Call(t) ==
    /\ thr[t].pc = "idle"
    /\ \E op \in ReadOps \cup WriteOps :
         thr' = [thr EXCEPT ![t] = [op |-> op,
                    pc |-> IF op \in ReadOps THEN "acquire_read" ELSE "register_write"]]
    /\ UNCHANGED <<rwlock, cacheVars>> /\ LockFrame

\* acquire_read: waits while a writer is active or pending, then counts in;
\* "inner" is the acquisition of get_job_status called by list_jobs
AcquireReadNoWait(t) ==
    /\ thr[t].pc \in {"acquire_read", "acquire_read_inner"}
    /\ rwlock' = [rwlock EXCEPT !.readers = @ + 1]
    /\ Goto(t, IF thr[t].pc = "acquire_read_inner" THEN "status_inner"
                ELSE IF thr[t].op = "list_jobs" THEN "list_body" ELSE "status_body")
    /\ UNCHANGED cacheVars /\ LockFrame

AcquireRead(t) ==
    /\ thr[t].pc \in {"acquire_read", "acquire_read_inner"}
    /\ rwlock.writers = 0 /\ rwlock.pending_writers = 0
    /\ rwlock' = [rwlock EXCEPT !.readers = @ + 1]
    /\ Goto(t, IF thr[t].pc = "acquire_read_inner" THEN "status_inner"
                ELSE IF thr[t].op = "list_jobs" THEN "list_body" ELSE "status_body")
    /\ UNCHANGED cacheVars /\ LockFrame

\* list_jobs lines 553-566: a valid cache is returned, otherwise the list is
\* rebuilt by calling self.get_job_status for each stored job
ListBody(t) ==
    /\ thr[t].pc = "list_body"
    /\ Goto(t, IF CacheHit \/ (\A j \in DOMAIN file : file[j] = NoJob)
                THEN "release_read" ELSE "acquire_read_inner")
    /\ UNCHANGED <<rwlock, cacheVars>> /\ LockFrame

\* body of get_job_status, called directly or by list_jobs
StatusBody(t) ==
    /\ thr[t].pc \in {"status_body", "status_inner"}
    /\ Goto(t, IF thr[t].pc = "status_inner" THEN "release_read_inner" ELSE "release_read")
    /\ UNCHANGED <<rwlock, cacheVars>> /\ LockFrame

\* release_read, first block: count out under _read_ready
ReleaseRead(t) ==
    /\ thr[t].pc \in {"release_read", "release_read_inner"}
    /\ rwlock' = [rwlock EXCEPT !.readers = @ - 1]
    /\ Goto(t, IF thr[t].pc = "release_read_inner" THEN "notify_inner" ELSE "notify_writers")
    /\ UNCHANGED cacheVars /\ LockFrame

\* release_read, second block: "with self._write_ready" to notify a writer
NotifyWriters(t) ==
    /\ thr[t].pc \in {"notify_writers", "notify_inner"}
    /\ rwlock.write_ready = 0
    /\ IF thr[t].pc = "notify_inner" THEN Goto(t, "list_cache")
       ELSE thr' = [thr EXCEPT ![t] = [op |-> "none", pc |-> "idle"]]
    /\ UNCHANGED <<rwlock, cacheVars>> /\ LockFrame

\* list_jobs lines 568-573: the rebuilt list replaces the cache
ListCache(t) ==
    /\ thr[t].pc = "list_cache"
    /\ RefreshCache /\ cacheFresh' = TRUE
    /\ Goto(t, "release_read")
    /\ UNCHANGED rwlock /\ LockFrame

\* acquire_write lines 131-132: register as pending writer
RegisterWrite(t) ==
    /\ thr[t].pc = "register_write"
    /\ rwlock' = [rwlock EXCEPT !.pending_writers = @ + 1]
    /\ Goto(t, "lock_write_ready")
    /\ UNCHANGED cacheVars /\ LockFrame

\* acquire_write line 135: "with self._write_ready", also taken again when
\* _write_ready.wait() returns
LockWriteReady(t) ==
    /\ thr[t].pc \in {"lock_write_ready", "wait_writers"}
    /\ rwlock.write_ready = 0
    /\ thr[t].pc = "wait_writers" => rwlock.writers = 0
    /\ rwlock' = [rwlock EXCEPT !.write_ready = t]
    /\ Goto(t, "claim_write")
    /\ UNCHANGED cacheVars /\ LockFrame

\* acquire_write lines 137-147: wait (giving up the mutex) while another
\* writer is active, else mark this writer active
ClaimWrite(t) ==
    /\ thr[t].pc = "claim_write"
    /\ IF rwlock.writers > 0
       THEN /\ rwlock' = [rwlock EXCEPT !.write_ready = 0]
            /\ Goto(t, "wait_writers")
       ELSE /\ rwlock' = [rwlock EXCEPT !.writers = 1]
            /\ Goto(t, "wait_readers")
    /\ UNCHANGED cacheVars /\ LockFrame

\* acquire_write lines 150-164: wait on _read_ready until no reader is left,
\* still holding the mutex of _write_ready, then leave "with _write_ready"
WaitReaders(t) ==
    /\ thr[t].pc = "wait_readers"
    /\ rwlock.readers = 0
    /\ rwlock' = [rwlock EXCEPT !.write_ready = 0]
    /\ Goto(t, "unregister_write")
    /\ UNCHANGED cacheVars /\ LockFrame

\* acquire_write lines 173-179 (finally): no longer pending
UnregisterWrite(t) ==
    /\ thr[t].pc = "unregister_write"
    /\ rwlock' = [rwlock EXCEPT !.pending_writers = @ - 1]
    /\ Goto(t, "write_body")
    /\ UNCHANGED cacheVars /\ LockFrame

\* the body of a write operation; its effect on the jobs is that of
\* StartJob, StopJob, DeleteJob, UpdateJobFromEngine, CleanupStoppedEngines;
\* here only _mark_job_list_dirty is kept
WriteBody(t) ==
    /\ thr[t].pc = "write_body"
    /\ dirty' = (dirty \/ thr[t].op # "cleanup_stopped_engines")
    /\ Goto(t, "release_write")
    /\ UNCHANGED <<rwlock, cache, cacheFresh>> /\ LockFrame

\* release_write: under _write_ready the writer becomes inactive
ReleaseWrite(t) ==
    /\ thr[t].pc = "release_write"
    /\ rwlock.write_ready = 0
    /\ rwlock' = [rwlock EXCEPT !.writers = 0]
    /\ thr' = [thr EXCEPT ![t] = [op |-> "none", pc |-> "idle"]]
    /\ UNCHANGED cacheVars /\ LockFrame

LockStep(t) ==
    \/ Call(t) \/ AcquireRead(t) \/ ListBody(t) \/ StatusBody(t) \/ ReleaseRead(t)
    \/ NotifyWriters(t) \/ ListCache(t) \/ RegisterWrite(t) \/ LockWriteReady(t)
    \/ ClaimWrite(t) \/ WaitReaders(t) \/ UnregisterWrite(t) \/ WriteBody(t)
    \/ ReleaseWrite(t)

\* t waits: on a condition of the lock or on the mutex of _write_ready
Blocked(t) ==
    \/ /\ thr[t].pc \in {"acquire_read", "acquire_read_inner"}
       /\ rwlock.writers > 0 \/ rwlock.pending_writers > 0
    \/ thr[t].pc = "wait_readers" /\ rwlock.readers > 0
    \/ thr[t].pc = "wait_writers" /\ (rwlock.writers > 0 \/ rwlock.write_ready # 0)
    \/ /\ thr[t].pc \in {"lock_write_ready", "notify_writers", "notify_inner",
                          "release_write"}
       /\ rwlock.write_ready # 0

\* ------------------------------------------------------- startup_event
\* startup_event lines 144-146: the ids of the stored jobs with status running
StartupList ==
    /\ mon.pc = "startup"
    /\ RefreshCache
    /\ cacheFresh' = TRUE
    /\ LET ids == {j \in DOMAIN ListJobs : ListJobs[j] = "running"} IN
       mon' = [pc |-> IF ids = {} THEN "list1" ELSE "recover", running_jobs |-> ids]
    /\ UNCHANGED <<cfgVars, file, wq, engines, last_progress_save, engine_stop_times,
                   eng, nextEng, sourceFiles, effects, previous_states,
                   cleanup_counter, finals>>

\* recover_interrupted_jobs: one iteration of the loop over the ids; after
\* the last one startup_event creates the monitor task
Recover(j) ==
    /\ mon.pc = "recover" /\ j \in mon.running_jobs
    /\ IF get_job(file, j) # NoJob /\ get_job(file, j).status = "running"
       THEN /\ Len(wq) < MaxQueue
            /\ wq' = update_job(wq, file, j, update_status(get_job(file, j), "paused"))
       ELSE UNCHANGED wq
    /\ LET rest == mon.running_jobs \ {j} IN
       mon' = [pc |-> IF rest = {} THEN "list1" ELSE "recover", running_jobs |-> rest]
    /\ UNCHANGED <<cfgVars, file, engines, last_progress_save, engine_stop_times,
                   eng, nextEng, sourceFiles, effects, cacheVars, previous_states,
                   cleanup_counter, finals>>

\* ------------------------------------------------------------ time
\* 2 s pass since the last persisted progress of j
ElapseSave(j) ==
    /\ last_progress_save[j].present /\ last_progress_save[j].fresh
    /\ last_progress_save' = [last_progress_save EXCEPT ![j].fresh = FALSE]
    /\ UNCHANGED <<cfgVars, file, wq, engines, engine_stop_times, eng, nextEng,
                   sourceFiles, effects, cacheVars, monVars>>

\* more than 300 s pass since the recorded stop time of j
ElapseStop(j) ==
    /\ engine_stop_times[j] = "recent"
    /\ engine_stop_times' = [engine_stop_times EXCEPT ![j] = "old"]
    /\ UNCHANGED <<cfgVars, file, wq, engines, last_progress_save, eng, nextEng,
                   sourceFiles, effects, cacheVars, monVars>>

\* 1 s passes since the list cache was built
ElapseCache ==
    /\ cacheFresh
    /\ cacheFresh' = FALSE
    /\ UNCHANGED <<cfgVars, file, wq, engines, last_progress_save, engine_stop_times,
                   eng, nextEng, sourceFiles, effects, cache, dirty, monVars>>

Elapse == (\E j \in JobIds : ElapseSave(j) \/ ElapseStop(j)) \/ ElapseCache

\* ------------------------------------------------------------ specification
Operator == \E j \in JobIds : StartJob(j) \/ StopJob(j) \/ DeleteJob(j)

\* update_job_from_engine and cleanup_stopped_engines are public operations
\* of the supervisor: called by any thread at any time
SupUpdate(j) ==
    /\ UpdateJobFromEngine(j)
    /\ UNCHANGED <<cfgVars, file, nextEng, sourceFiles, effects, cache,
                   cacheFresh, monVars>>

SupCleanup ==
    /\ CleanupStoppedEngines
    /\ UNCHANGED <<cfgVars, file, wq, nextEng, sourceFiles, effects,
                   cacheVars, monVars>>

\* the whole system: operator calls, engine threads and children, the store's
\* writer thread, the event monitor and the passing of time
Next ==
    \/ Operator
    \/ (\E e \in EngIds : EngineStep(e))
    \/ WriteWorker
    \/ MonitorStep
    \/ Elapse

Spec == Init /\ [][Next]_vars

\* ------------------------------------------------- scenario specifications
\* the child and the engine's monitor thread without the progress parser
TransferStep(e) ==
    \/ ChildExit(e) \/ ThreadExit(e) \/ BackoffWake(e) \/ RestartProcess(e)
    \/ Finish(e)

\* the whole engine thread with the deletion pipeline, without the parser
PipelineStep(e) ==
    \/ TransferStep(e) \/ ChildUnlink(e) \/ Verify(e) \/ DeleteFile(e)
    \/ DeleteDone(e) \/ DeleteRemote(e) \/ VerifyAfter(e)

\* a job without source deletion
PlainCfg ==
    [type |-> "rsync", delete_source_after |-> FALSE, deletion_confirmed |-> FALSE,
     skip_deletion_this_run |-> FALSE, deletion_mode |-> "verify_then_delete"]

InitPlain == Init /\ job_cfg = [j \in JobIds |-> PlainCfg]

\* the supervisor of a plain job under arbitrary callers of its public
\* operations: start, stop, delete, update and reaper calls against transfers
GuardNext ==
    \/ Operator
    \/ (\E j \in JobIds : SupUpdate(j))
    \/ SupCleanup
    \/ (\E e \in EngIds : TransferStep(e))
    \/ WriteWorker
    \/ (\E j \in JobIds : ElapseStop(j))

GuardSpec == InitPlain /\ [][GuardNext]_vars

\* concurrent start_job calls for a plain job, the child, the engine thread
\* and the store's writer
RaceNext ==
    \/ (\E j \in JobIds : StartJob(j))
    \/ (\E e \in EngIds : TransferStep(e))
    \/ WriteWorker

RaceSpec == InitPlain /\ [][RaceNext]_vars

\* runs of jobs of every deletion configuration
DeletionNext ==
    \/ (\E j \in JobIds : StartJob(j) \/ StopJob(j))
    \/ (\E j \in JobIds : SupUpdate(j))
    \/ (\E e \in EngIds : PipelineStep(e))
    \/ WriteWorker

DeletionSpec == Init /\ [][DeletionNext]_vars

\* the first start_job call for a job
FirstStart(j) == nextEng = 0 /\ StartJob(j)

\* the production system around a job that is started once and then neither
\* stopped nor deleted: engine, store writer and event monitor, all of which
\* keep running
RunNext ==
    \/ (\E j \in JobIds : FirstStart(j))
    \/ (\E e \in EngIds : PipelineStep(e))
    \/ WriteWorker
    \/ MonitorStep

RunSpec ==
    /\ Init /\ [][RunNext]_vars
    /\ WF_vars(MonitorStep)
    /\ WF_vars(WriteWorker)
    /\ \A e \in EngIds : WF_vars(PipelineStep(e))

\* one engine run under the default setting max_retry_attempts = 10
DefaultRetries == 10

DefaultStart(j) == nextEng = 0 /\ StartJobWith(j, DefaultRetries)

RetryNext ==
    \/ (\E j \in JobIds : DefaultStart(j))
    \/ (\E e \in EngIds : TransferStep(e))

RetrySpec == Init /\ [][RetryNext]_vars

\* start_job in all its outcomes, the engine thread, and a store writer
\* whose physical writes can fail
StartNext ==
    \/ (\E j \in JobIds : StartJob(j) \/ StartJobRaises(j))
    \/ (\E e \in EngIds : TransferStep(e))
    \/ PerformWrite
    \/ PerformWriteRaises

StartSpec == InitPlain /\ [][StartNext]_vars

\* a job of any deletion configuration that is started once, and a caller
\* that takes a progress snapshot at some moment and keeps it
SnapshotNext ==
    \/ (\E j \in JobIds : FirstStart(j))
    \/ (\E e \in EngIds : PipelineStep(e))
    \/ (\E e \in EngIds : GetProgress(e))

SnapshotSpec == Init /\ [][SnapshotNext]_vars

\* a circuit breaker around a function that returns or raises
CircuitNext ==
    \/ (\E raises \in BOOLEAN : CircuitCall(raises))
    \/ CircuitElapse
    \/ CircuitReset

CircuitSpec == InitPlain /\ [][CircuitNext]_vars

\* the same system with stop_job calls, for a plain job
StopNext ==
    \/ (\E j \in JobIds : FirstStart(j) \/ StopJob(j))
    \/ (\E e \in EngIds : TransferStep(e))
    \/ WriteWorker
    \/ MonitorStep

StopSpec ==
    /\ InitPlain /\ [][StopNext]_vars
    /\ WF_vars(MonitorStep)
    /\ WF_vars(WriteWorker)
    /\ \A e \in EngIds : WF_vars(TransferStep(e))

\* the same system with the clock of the reaper: stopped engines age while
\* the event monitor keeps cycling
ReaperNext ==
    \/ StopNext
    \/ (\E j \in JobIds : ElapseStop(j))

ReaperSpec ==
    /\ InitPlain /\ [][ReaperNext]_vars
    /\ WF_vars(MonitorStep)
    /\ WF_vars(WriteWorker)
    /\ \A e \in EngIds : WF_vars(TransferStep(e))
    /\ \A j \in JobIds : WF_vars(ElapseStop(j))

\* the production system around a plain job that operators start, and start
\* again after a run has failed
RestartNext ==
    \/ (\E j \in JobIds : StartJob(j))
    \/ (\E e \in EngIds : TransferStep(e))
    \/ WriteWorker
    \/ MonitorStep

RestartSpec == InitPlain /\ [][RestartNext]_vars

\* a transfer adapter without source deletion, of either tool, under stop()
\* calls of the holder of the engine
AdapterInit == Init /\ \A j \in JobIds : ~job_cfg[j].delete_source_after

AdapterNext ==
    \/ (\E j \in JobIds : StartJob(j))
    \/ (\E e \in EngIds : EngineStop(e) \/ TransferStep(e))
    \/ WriteWorker

AdapterSpec == AdapterInit /\ [][AdapterNext]_vars

\* a store of two jobs under direct save, update and delete calls
StoreInit ==
    /\ InitRest
    /\ job_cfg = [j \in JobIds |-> PlainCfg]
    /\ file = [j \in StoreIds |-> NoJob]
    /\ mon = [pc |-> "list1", running_jobs |-> {}]

StoreNext ==
    \/ (\E j \in StoreIds, job \in StoreJobs : SaveJob(j, job) \/ UpdateJob(j, job))
    \/ (\E j \in StoreIds : StoreDeleteJob(j))
    \/ WriteWorker

StoreSpec == StoreInit /\ [][StoreNext]_vars

\* records found in the store when the application starts
StoredJobs ==
    [status : {"running", "completed", "pending"}, percent : {0, 50}, version : {1, 2}]

\* application startup over a store of two jobs, before the monitor runs
RecoveryInit ==
    /\ InitRest
    /\ job_cfg = [j \in JobIds |-> PlainCfg]
    /\ file \in [StoreIds -> StoredJobs]
    /\ mon = [pc |-> "startup", running_jobs |-> {}]

RecoveryNext ==
    \/ StartupList
    \/ (\E j \in StoreIds : Recover(j))
    \/ WriteWorker

RecoverySpec == RecoveryInit /\ [][RecoveryNext]_vars

\* threads calling the supervisor's operations over one stored job
LockNext == (\E t \in Threads : LockStep(t)) \/ ElapseCache

LockSpec == InitPlain /\ [][LockNext]_vars

\* the store files under queued writes, outside damage and concurrent loads
DiskNext ==
    \/ (\E j \in JobIds, job \in StoreJobs : DiskSaveJob(j, job))
    \/ BackupBegin
    \/ BackupEnd
    \/ Rename
    \/ Corrupt
    \/ (\E t \in Threads : LoadJobs(t) \/ RestoreEnd(t))

DiskSpec == StoreInit /\ [][DiskNext]_vars

\* the writer thread and the shutdown routine over a store that callers
\* have been saving to
ShutdownNext ==
    \/ (\E j \in StoreIds, job \in StoreJobs : SaveBeforeShutdown(j, job))
    \/ WriterTest
    \/ WriterGet
    \/ ShutdownBegin
    \/ ShutdownJoin

ShutdownSpec ==
    /\ StoreInit /\ [][ShutdownNext]_vars
    /\ WF_vars(WriterTest) /\ WF_vars(WriterGet) /\ WF_vars(ShutdownJoin)

\* a store whose physical writes can fail
FailNext ==
    \/ (\E j \in StoreIds, job \in StoreJobs : SaveJob(j, job) \/ UpdateJob(j, job))
    \/ (\E j \in StoreIds : StoreDeleteJob(j))
    \/ PerformWrite
    \/ PerformWriteRaises

FailSpec == StoreInit /\ [][FailNext]_vars

\* the broadcaster with clients that attach and go away while it sends
BroadcastNext ==
    \/ (\E c \in Subscribers : Connect(c) \/ Disconnect(c))
    \/ BroadcastStart
    \/ BroadcastSend
    \/ BroadcastEnd

BroadcastSpec == InitPlain /\ [][BroadcastNext]_vars

\* ------------------------------------------------------------ claims
\* a successful start_job(j): an engine is constructed, started and registered
Started(j) == nextEng' = nextEng + 1 /\ engines'[j] = nextEng'

\* C1: a job with delete_source_after set but deletion_confirmed unset (or
\* skip_deletion_this_run set) never produces a deletion side effect: no
\* source file removed, no source-removing flag or move handed to the tool,
\* no directory pruned, no audit entry written, across starts, stops, retries.
C1_NoDeletionUnlessConfirmed ==
    \A j \in JobIds :
        (/\ job_cfg[j].delete_source_after
         /\ (~job_cfg[j].deletion_confirmed \/ job_cfg[j].skip_deletion_this_run))
        => (effects[j] = {} /\ sourceFiles[j] = MaxFiles)

\* C1 witness: an unconfirmed delete_source_after job completed after a retry
C1_Witness ==
    \E j \in JobIds :
        /\ job_cfg[j].delete_source_after /\ ~job_cfg[j].deletion_confirmed
        /\ engines[j] # NoEngine
        /\ eng[engines[j]].status = "completed"
        /\ eng[engines[j]].retry_count > 0

\* C3: in verify_then_delete mode every state with files_deleted > 0 has
\* verification.passed = true in the progress snapshot, from the start of
\* the delete phase on.
C3_DeletedImpliesPassed ==
    \A e \in EngIds :
        (VerifyThenDelete(eng[e]) /\ (eng[e].files_deleted > 0 \/ eng[e].pc = "delete"))
        => get_progress(e).passed = "true"

C6_ExactlyOneStart == nextEng <= 1

\* the engine thread of j found its verify phase failed
VerifyFailed(j) == \E e \in EngIds : eng[e].job = j /\ eng[e].phase = "failed"

\* C2: when the verify phase of verify_then_delete fails, the delete phase
\* is never entered (no source file removed, files_deleted stays 0,
\* deletion.phase is failed) and the transfer still counts as completed, so
\* the job ends with stored status completed.
C2_VerifyFailureStillCompletes ==
    /\ [](\A e \in EngIds :
            eng[e].phase = "failed"
            => /\ eng[e].files_deleted = 0 /\ eng[e].pc \in {"finish", "done"}
               /\ sourceFiles[eng[e].job] = MaxFiles
               /\ "unlink" \notin effects[eng[e].job])
    /\ \A j \in JobIds : VerifyFailed(j) ~> (file[j].status = "completed")

\* the child of j's engine has exited with status 0 and the thread has not
\* yet read the exit
CleanExit(j) ==
    \E e \in EngIds : /\ eng[e].job = j /\ eng[e].pc = "reading"
                       /\ eng[e].process = "exited" /\ eng[e].returncode = 0

\* C7: a started job whose child exits with status 0 eventually has stored
\* status completed, persisted only after the deletion pipeline has ended,
\* whenever the monitor polls, as long as the job is not stopped or deleted.
C7_CleanExitCompletes ==
    /\ [](\A j \in JobIds : \A e \in EngIds :
            (file[j].status = "completed" /\ eng[e].job = j)
            => eng[e].pc \notin {"reading", "verify", "delete", "verify_after"})
    /\ \A j \in JobIds : CleanExit(j) ~> (file[j].status = "completed")

\* C8: after a transient failure with retries left the supervisor does not
\* finalize the job: during the backoff wait and the restarted run the
\* engine stays in the engines map.
C8_RetryStaysTracked ==
    \A e \in EngIds :
        (/\ eng[e].retry_count > 0 /\ eng[e].running
         /\ eng[e].pc \in {"backoff", "restart", "reading"})
        => engines[eng[e].job] = e

\* the last permitted attempt of j's engine has ended in a transient failure
RetriesExhausted(j) ==
    \E e \in EngIds : /\ eng[e].job = j /\ eng[e].pc = "reading"
                       /\ eng[e].process = "exited" /\ IsTransient(eng[e])
                       /\ eng[e].retry_count = eng[e].max_retries

\* C9: a running job whose engine fails transiently on every attempt
\* eventually has stored status failed, and a job_final_update with status
\* failed is broadcast.
C9_ExhaustedRetriesFail ==
    \A j \in JobIds :
        RetriesExhausted(j) ~> (file[j].status = "failed" /\ finals[j] = <<"failed">>)

\* C10: every transition of a job from running to completed, failed or
\* paused is followed by exactly one job_final_update for the job, also when
\* it was the only running job, was stopped between two monitor cycles, or
\* started and finished between two cycles.
C10_FinalUpdateOnce ==
    /\ [](\A j \in JobIds : Len(finals[j]) <= 1)
    /\ \A j \in JobIds :
          (file[j] # NoJob /\ file[j].status \in FinalStatuses) ~> (Len(finals[j]) = 1)

\* C11: the event monitor emits a job_final_update for a job only when its
\* previous-status map holds running for that job, one message at a time,
\* and the emission disarms the map entry; the number of final updates of a
\* job never exceeds the number of its incarnations (successful starts), so
\* a second final update needs a restart.
C11_AtMostOneFinalPerIncarnation ==
    [][\A j \in JobIds :
          finals'[j] # finals[j]
          => /\ previous_states[j] = "running"
             /\ Len(finals'[j]) = Len(finals[j]) + 1
             /\ previous_states'[j] \in FinalStatuses
             /\ Len(finals'[j]) <= nextEng]_vars

\* C11 witness: a job restarted after its first final update got a second one
C11_Witness ==
    \E j \in JobIds : Len(finals[j]) = 2 /\ nextEng = 2

\* stop() has returned true on e with status paused and e's monitor thread
\* has not ended yet
StoppedAdapter(e) ==
    /\ \E j \in JobIds : engines[j] = e
    /\ ~eng[e].running /\ eng[e].status = "paused"
    /\ eng[e].pc \in {"reading", "backoff", "restart", "finish"}

\* C12: after stop() returned true on an adapter that was running or waiting
\* in retry backoff, no child of the adapter is alive, the adapter spawns no
\* further child and its progress status stays paused, whatever its monitor
\* thread does next.
C12_StopIsFinal ==
    [][\A e \in EngIds :
          StoppedAdapter(e)
          => /\ eng[e].process # "alive"
             /\ eng'[e].process # "alive"
             /\ eng'[e].status = "paused"]_vars

\* the store as it will be once the writes queued so far have been applied
Latest == IF wq = <<>> THEN file ELSE wq[Len(wq)]

\* C13: no successful store mutation is lost: the whole-list snapshot that a
\* save_job, update_job or delete_job call on one job queues agrees, for
\* every other job, with the mutations accepted before it, so the drained
\* store reflects all of them.
C13_NoLostMutation ==
    [][\A j \in StoreIds :
          (\/ \E job \in StoreJobs : SaveJob(j, job) \/ UpdateJob(j, job)
           \/ StoreDeleteJob(j))
          => \A k \in StoreIds \ {j} : wq'[Len(wq')][k] = Latest[k]]_vars

\* C14: after save(job) or update(job) returned true the next get(job.id)
\* returns a record equal to job, and after delete(id) returned true the
\* next get(id) returns nothing.
C14_ReadYourWrites ==
    [][\A j \in StoreIds :
          /\ \A job \in StoreJobs :
                (SaveJob(j, job) \/ UpdateJob(j, job)) => get_job(file', j) = job
          /\ StoreDeleteJob(j) => get_job(file', j) = NoJob]_vars

\* C17: once startup recovery has run and the write queue has drained, no
\* stored job is left with status running (every interrupted job is paused,
\* so that a start_job on it is accepted), no job has an engine and none was
\* resumed.
C17_RecoveryPausesAll ==
    (mon.pc = "list1" /\ wq = <<>>)
    => /\ \A j \in StoreIds : file[j].status # "running"
       /\ \A j \in JobIds : engines[j] = NoEngine
       /\ nextEng = 0

\* delete_job(j) returns success: the deletion of the record is queued
DeleteSucceeds(j) == DeleteJob(j) /\ wq' # wq

\* an adapter of j has a running child or a worker waiting to retry
LiveEngine(j) ==
    \E e \in EngIds :
        /\ eng[e].job = j
        /\ eng[e].process = "alive" \/ eng[e].pc \in {"backoff", "restart"}

\* C18: delete_job(j) succeeds only when j has no live engine: with a running
\* child or a worker waiting in retry backoff the call fails and the record
\* stays; after a successful call no child of j is running.
C18_DeleteOnlyWithoutLiveEngine ==
    [][\A j \in JobIds :
          /\ DeleteSucceeds(j) => ~LiveEngine(j)
          /\ (DeleteJob(j) /\ LiveEngine(j)) => UNCHANGED <<file, wq, engines>>]_vars

\* the transfer of the engine registered for j has finished: its child has
\* exited with status 0 or its monitor thread has ended
TransferFinished(j) ==
    /\ engines[j] # NoEngine
    /\ LET r == eng[engines[j]] IN
         \/ r.pc \in {"finish", "done"}
         \/ r.pc = "reading" /\ r.process = "exited" /\ r.returncode = 0

\* C19: stop_job(j) on a job that is not running (never started, already
\* stopped, already finished, unknown) changes nothing: no write is queued,
\* the engines map and both tracker maps stay as they are; a job whose
\* transfer has finished is never turned into Paused.
C19_StopOfIdleJobIsNoOp ==
    [][\A j \in JobIds :
          (StopJob(j) /\ (engines[j] = NoEngine \/ TransferFinished(j)))
          => UNCHANGED <<file, wq, engines, last_progress_save,
                         engine_stop_times>>]_vars

\* C20: for every job the versions written to the store are strictly
\* increasing: each record the write worker puts into the file has a higher
\* version than the record of the same job it replaces, across start_job,
\* stop_job, both saves of a finalizing update and progress saves.
C20_VersionsStrictlyIncrease ==
    [][\A j \in JobIds :
          (WriteWorker /\ file[j] # NoJob /\ file'[j] # NoJob)
          => file'[j].version > file[j].version]_vars

\* C16: every call of a supervisor operation terminates: no thread waits
\* forever on the read-write lock. Finite form: whenever a thread waits on
\* the lock, some thread that is inside a call can take its next step.
C16_NoThreadWaitsForever ==
    (\E t \in Threads : Blocked(t))
    => \E u \in Threads : thr[u].pc # "idle" /\ ~Blocked(u)
\* C15: whatever the interleaving of loads with the queued writes and with
\* recovery from the backup, no load of the job store parses a partially
\* written file: what a reader has seen is a complete document.
C15_ReaderSeesWholeDocument == \A t \in Threads : disk.seen[t] # "partial"

\* C21: the store never replaces the record of a job by a record of the same
\* id with a lower version: a write that would lower the version is ignored.
C21_StoredVersionNeverDecreases ==
    [][\A j \in DOMAIN file :
          (file[j] # NoJob /\ file'[j] # NoJob)
          => file'[j].version >= file[j].version]_vars

\* C22: when an engine in verify_then_delete mode reports its terminal status
\* after the pipeline ran, a verify or delete phase that failed (some file
\* could not be removed) has set deletion.phase to failed: the phase shown
\* with the terminal status is completed or failed, never verifying or deleting.
C22_FailedPhaseBeforeTerminalStatus ==
    \A e \in EngIds :
        (eng[e].status = "completed" /\ VerifyThenDelete(eng[e]))
        => eng[e].phase \in {"completed", "failed"}

\* the step of update_job_from_engine(j) that finalizes the job: its engine
\* is no longer running and the two saves of lines 407 and 429 are queued
Finalizes(j) ==
    /\ file[j] # NoJob /\ engines[j] # NoEngine /\ ~is_running(engines[j])
    /\ engines'[j] = NoEngine
    /\ Len(wq') = Len(wq) + 2

C24_ListReflectsCompletedWrite ==
    [][\A j \in JobIds :
          /\ Started(j) => ListJobs'[j] = "running"
          /\ DeleteSucceeds(j) => ListJobs'[j] = "absent"]_vars

\* C25: a step of the supervisor queues at most one record for a job, and a
\* record queued for a job that already has a persisted record follows it by
\* at least 2 s or differs from it by at least 1 in percent.
C25_PersistedRecordsAreThrottled ==
    [][\A j \in JobIds :
          Len(wq') > Len(wq) =>
             /\ Len(wq') = Len(wq) + 1
             /\ \/ ~last_progress_save[j].present
                \/ ~last_progress_save[j].fresh
                \/ wq'[Len(wq')][j] = NoJob
                \/ AbsDiff(wq'[Len(wq')][j].percent,
                           last_progress_save[j].percent) >= 1]_vars

\* an engine of j is registered and its is_running() is false
StoppedInMap(j) == engines[j] # NoEngine /\ ~is_running(engines[j])

C27_QueueDrainedAtShutdown == writer.pc = "stopped" => wq = <<>>

\* C28: when a load finds the primary file unreadable and the backup missing
\* or unreadable as well, it returns an empty document and a Critical
\* ErrorEvent has been logged.
C28_EmptyDocumentLogsCritical ==
    \A t \in Threads : disk.seen[t] = "empty" => "CRITICAL" \in disk.events

\* C29: when a broadcast has ended, every subscriber that was attached from
\* its start to its end and whose send did not raise has received the message,
\* whatever attached or detached while the broadcast was suspended in a send.
C29_BroadcastReachesEverySubscriber ==
    ws.pc = "done" => (ws.stayed \ ws.raised) \subseteq ws.delivered

\* C30: a change whose save, update or delete call reported success is
\* written: a queued list leaves the queue only by replacing the file, never
\* by a write that failed after its retries.
C30_ReportedSuccessIsWritten ==
    [][(wq # <<>> /\ wq' = Tail(wq)) => file' = Head(wq)]_vars

\* threads between a returned acquire_read and their release_read
ReadHolders ==
    {t \in Threads : thr[t].pc \in {"list_body", "status_body", "acquire_read_inner",
                                     "status_inner", "release_read_inner",
                                     "notify_inner", "list_cache", "release_read"}}

\* threads between the point where acquire_write has found no reader left
\* and their release_write
WriteHolders ==
    {t \in Threads : thr[t].pc \in {"unregister_write", "write_body", "release_write"}}

\* C31: the lock is held by at most one writer and never by a writer and a
\* reader at the same time, while readers may hold it together; a writer
\* has acquired only when no reader holds the lock.
C31_WritersExcludeEveryone ==
    /\ Cardinality(WriteHolders) <= 1
    /\ WriteHolders # {} => (ReadHolders = {} /\ rwlock.readers = 0 /\ rwlock.writers = 1)
    /\ rwlock.writers <= 1

\* two readers hold the lock together
C31_Witness == Cardinality(ReadHolders) >= 2

\* the worker of e leaves its read loop after a non-zero exit of the child,
\* with retries left
FailedExit(e) ==
    /\ eng[e].pc = "reading" /\ eng[e].process = "exited"
    /\ eng[e].returncode # 0
    /\ eng[e].retry_count < eng[e].max_retries
    /\ eng'[e].pc \in {"backoff", "done"}

\* C32: after a non-zero exit of the child, an adapter of either kind retries
\* when the exit code is in the transient code set or the tail of the output
\* matches a transient pattern, either one being enough for any exit code,
\* and reports failed otherwise.
C32_TransientByCodeOrPattern ==
    [][\A e \in EngIds :
          FailedExit(e) =>
             ((eng[e].returncode \in NETWORK_ERROR_CODES \/ eng[e].netpat)
              <=> eng'[e].pc = "backoff")]_vars

\* C33: within one engine run the n-th retry (n = 0, 1, 2, ...) after a
\* transient failure is preceded by a wait of min(2^n, 60) seconds,
\* retry_count never exceeds max_retries, and the child is restarted at most
\* max_retries times before the adapter reports failed.
C33_BackoffAndRetryLimit ==
    \A e \in EngIds :
       LET r == eng[e] n == eng[e].retry_count - 1 IN
       /\ r.retry_count <= r.max_retries
       /\ r.restarts <= r.retry_count
       /\ r.restarts <= r.max_retries
       /\ r.retry_count > 0 => r.backoff = (IF n <= 5 THEN 2 ^ n ELSE 60)

\* ten retries were made, the last after the capped wait, and the adapter
\* reports failed
C33_Witness ==
    \E e \in EngIds :
       /\ eng[e].status = "failed" /\ eng[e].max_retries = DefaultRetries
       /\ eng[e].retry_count = DefaultRetries
       /\ eng[e].restarts = DefaultRetries /\ eng[e].backoff = 60

\* the writer takes a list queued by a successful start_job(j) off the queue
StartWriteTaken(j) ==
    /\ wq # <<>> /\ wq' = Tail(wq)
    /\ Head(wq)[j] # NoJob /\ Head(wq)[j].status = "running"

\* C34: if start_job returns failure after the adapter's start() succeeded,
\* the adapter has been stopped and neither the engines map nor
\* last_progress_save holds an entry for the id; if start_job returns
\* success, the engine is in the engines map and the job's stored status
\* becomes running.
C34_StartOutcomes ==
    [][\A j \in JobIds :
         /\ StartJobRaises(j) =>
               /\ engines'[j] = NoEngine /\ ~last_progress_save'[j].present
               /\ ~eng'[nextEng'].running
         /\ Started(j) =>
               /\ engines'[j] # NoEngine
               /\ wq' # <<>> /\ wq'[Len(wq')][j].status = "running"
         /\ StartWriteTaken(j) => file'[j] # NoJob /\ file'[j].status = "running"]_vars

\* the load_jobs call that list_jobs (line 562) and, through get_job,
\* get_job_status (line 303) make, up to the end of a recovery it entered
ReaderLoad(t) == LoadJobs(t) \/ RestoreEnd(t)

\* C35: get_job_status and list_jobs are read-only: no call to either ever
\* modifies the job store file, the engines map, last_progress_save or
\* engine_stop_times; the only state they may change is the list cache.
C35_ReadsLeaveStoreAlone ==
    [][\A t \in Threads :
          ReaderLoad(t) =>
             /\ file' = file /\ disk'.main = disk.main
             /\ UNCHANGED <<engines, last_progress_save, engine_stop_times>>]_vars

\* C36: a progress snapshot returned by get_progress() is an independent
\* value: no later update made by the adapter's worker thread, including
\* updates to the nested deletion and verification blocks, changes a
\* snapshot that was already handed to the supervisor.
C36_SnapshotIsIndependent ==
    \A e \in EngIds : eng[e].snap.taken => SnapshotNow(e) = eng[e].snap

\* C37: a circuit breaker moves from Closed to Open exactly when
\* failure_threshold consecutive calls have failed with no successful call in
\* between (a success resets the count); failures separated by successes
\* never open the circuit.
C37_OpensOnConsecutiveFailures ==
    [][(cb.state = "closed" /\ cb'.state = "open")
         <=> (cb.state = "closed" /\ cb'.streak = cb.streak + 1
              /\ cb'.streak = failure_threshold)]_vars

\* C38: after any sequence of supervisor operations every key of
\* last_progress_save and of engine_stop_times is also a key of the engines
\* map: tracker entries of jobs that were stopped, finished, reaped or
\* deleted do not remain and are not inherited by a later engine of the job.
C38_TrackersFollowEngines ==
    \A j \in JobIds :
       (last_progress_save[j].present \/ engine_stop_times[j] # "none")
          => engines[j] # NoEngine

\* the status of j in the newest list handed to the store: the last queued
\* list, or the file when nothing is queued
StoredStatus(f, q, j) == IF q = <<>> THEN f[j].status ELSE q[Len(q)][j].status

\* C39: except between a crash and the startup recovery that follows it,
\* every job whose stored status is running has an engine in the engines
\* map: no operation (update_job_from_engine, cleanup_stopped_engines,
\* stop_job, delete_job) removes an engine from the map while leaving that
\* job's stored status running.
C39_RunningJobsKeepTheirEngine ==
    [][\A j \in JobIds :
          (engines[j] # NoEngine /\ engines'[j] = NoEngine)
             => StoredStatus(file', wq', j) # "running"]_vars

\* the engines of job j whose transfer child is alive
LiveChildren(j) == {e \in EngIds : eng[e].job = j /\ eng[e].process = "alive"}

\* C40: for every job id at most one transfer child process is alive at any
\* time, across restarts made by the adapter's retry loop and across any
\* sequence of stop_job followed by start_job on the same job.
C40_OneLiveChildPerJob == \A j \in JobIds : Cardinality(LiveChildren(j)) <= 1
====
